---------------------------- MODULE Spec2Model ----------------------------
(***************************************************************************)
(* festin: the concurrent discovery engine of src/festin/__main__.py.      *)
(*                                                                         *)
(* analyze_domains (the scheduler coroutine) drains an asyncio.Queue of    *)
(* domains, creates one analyze task per dequeued domain and acquires an   *)
(* asyncio.Semaphore after creating it.  Every analyze task runs get_s3,   *)
(* get_links and get_dns_info, each of which may put newly found domains   *)
(* on the queue, and releases the semaphore in its finally block.          *)
(*                                                                         *)
(* asyncio is cooperative: a coroutine runs until it awaits something that *)
(* is not ready.  One action of this module is one such run of one         *)
(* coroutine, from a suspension point to the next one.  The scheduler's    *)
(* run is cut at the lines of its loop; while it is between two of them    *)
(* (pc \in {"loop", "acquire"}) no task takes a step.                      *)
(*                                                                         *)
(* asyncio.Semaphore is the one of CPython 3.8 to 3.10: release adds one   *)
(* to _value and wakes the first waiter, and the woken acquire takes its   *)
(* permit when it runs again.                                              *)
(*                                                                         *)
(* Strings are tuples of one-character strings, so that the slicing of     *)
(* get_s3 is computed as Python computes it.                               *)
(***************************************************************************)
EXTENDS Naturals, Integers, Sequences, FiniteSets, TLC

(***************************************************************************)
(* Bounds of the model.                                                    *)
(***************************************************************************)
MaxSeeds == 2          \* longest seed list
MaxConcurrency == 2    \* largest --concurrency
MaxCount == 10         \* the event counters stop counting here

(***************************************************************************)
(* Strings.                                                                *)
(***************************************************************************)
Min(a, b) == IF a < b THEN a ELSE b
Max(a, b) == IF a > b THEN a ELSE b

\* the items m..n of s (1-based); empty when n < m
Sub(s, m, n) == [k \in 1..(n - m + 1) |-> s[m + k - 1]]

\* s.endswith(suffix)
EndsWith(s, suffix) ==
    /\ Len(suffix) <= Len(s)
    /\ Sub(s, Len(s) - Len(suffix) + 1, Len(s)) = suffix

\* the 0-based offsets at which sub occurs in s
Occurrences(s, sub) ==
    { k \in 0..(Len(s) - Len(sub)) : Sub(s, k + 1, k + Len(sub)) = sub }

\* s.find(sub): the lowest offset, or -1
Find(s, sub) ==
    IF Occurrences(s, sub) = {} THEN -1
    ELSE CHOOSE k \in Occurrences(s, sub) : \A j \in Occurrences(s, sub) : k <= j

\* a slice bound as Python normalises it: negative counts from the end
SliceIndex(s, k) == IF k < 0 THEN Max(Len(s) + k, 0) ELSE Min(k, Len(s))

\* s[lo:]
SliceFrom(s, lo) == Sub(s, SliceIndex(s, lo) + 1, Len(s))

\* s[:hi]
SliceTo(s, hi) == Sub(s, 1, SliceIndex(s, hi))

S3_MARKER == <<"s", "3">>
S3_AMAZONAWS_COM ==
    <<"s", "3", ".", "a", "m", "a", "z", "o", "n", "a", "w", "s", ".", "c", "o", "m">>
HTTP_PREFIX == <<"h", "t", "t", "p", ":", "/", "/">>

\* BASE_URL.format(domain=domain); BASE_URL comes from the festin package
BASE_URL_format(domain) == <<"{BASE_URL}">> \o domain

\* get_s3, lines 102-110: the locator requested and the domain recorded
BucketName(domain) ==
    IF EndsWith(domain, S3_AMAZONAWS_COM) THEN domain
    ELSE IF Find(domain, S3_MARKER) >= 0
         THEN HTTP_PREFIX \o SliceFrom(domain, Find(domain, S3_MARKER))
                  \o <<"/">> \o SliceTo(domain, Find(domain, S3_MARKER) - 1)
         ELSE BASE_URL_format(domain)

BucketDomain(domain) ==
    IF EndsWith(domain, S3_AMAZONAWS_COM) THEN domain
    ELSE IF Find(domain, S3_MARKER) >= 0
         THEN SliceTo(domain, Find(domain, S3_MARKER) - 1)
         ELSE domain

\* str(response.status).startswith("2")
RECURSIVE FirstDigit(_)
FirstDigit(n) == IF n < 10 THEN n ELSE FirstDigit(n \div 10)

StatusStartsWith2(status) == FirstDigit(status) = 2


(***************************************************************************)
(* The network.  What every endpoint answers is fixed when the run starts: *)
(* env.bucket[d] is the answer to get_s3's request for domain d,           *)
(* env.http[d] and env.https[d] the answers to get_links' two requests and *)
(* env.cname[d] the answer to get_dns_info's query.                        *)
(***************************************************************************)
DomA == <<"a">>
DomB == <<"b", ".", "s", "3", ".", "c">>
DomC == <<"c", ".">> \o S3_AMAZONAWS_COM
Domains == {DomA, DomB, DomC}
NoDomain == <<>>

\* session.get(bucket_name) raised
BucketFailure ==
    [failed |-> TRUE, status |-> 0, parses |-> FALSE, objects |-> <<>>,
     location |-> NoDomain]
\* a response with this status; parses: parse_result / get_redirection accept the body
BucketAnswer(status, parses, objects, location) ==
    [failed |-> FALSE, status |-> status, parses |-> parses, objects |-> objects,
     location |-> location]

\* session.get(f"{scheme}://{domain}") or response.text() raised
PageFailure == [failed |-> TRUE, html |-> FALSE, parses |-> FALSE, refs |-> <<>>]
\* html: "html" is in the Content-Type; parses: etree.HTML gives a tree;
\* refs: the values of the src attributes, as urlparse splits them
PageAnswer(html, parses, refs) ==
    [failed |-> FALSE, html |-> html, parses |-> parses, refs |-> refs]
Ref(netloc, path) == [netloc |-> netloc, path |-> path]
\* a reference whose authority opens a bracket it never closes: "http://[/x"
Malformed == Ref(<<"[">>, <<"/", "x">>)

\* resolver.query raised
DnsFailure == [failed |-> TRUE, answered |-> FALSE, an |-> <<>>]
\* answered: query returned a response object (else None); an: its answer records
DnsAnswer(answered, an) == [failed |-> FALSE, answered |-> answered, an |-> an]

\* The discovery graphs: the domains an endpoint of d refers to, in order.
Pair  == [d \in Domains |-> IF d = DomA THEN <<DomB>> ELSE <<>>]
Chain == [d \in Domains |->
            IF d = DomA THEN <<DomB>> ELSE IF d = DomB THEN <<DomC>> ELSE <<>>]
Fan   == [d \in Domains |->
            IF d = DomA THEN <<DomB, DomC>> ELSE IF d = DomB THEN <<DomC>> ELSE <<>>]
Cycle == [d \in Domains |->
            IF d = DomA THEN <<DomB>> ELSE IF d = DomB THEN <<DomA>> ELSE <<>>]

S3Kinds == {"listing", "empty", "some_empty", "garbled", "redirect", "badredirect",
            "notfound", "failure"}
LinkKinds == {"both", "http_fails", "https_fails", "not_html", "unparsable",
              "malformed", "nolinks"}
DnsKinds == {"alias", "noalias", "failure", "noresponse"}

OBJECTS == << <<"a", ".", "t", "x", "t">>, <<"b", ".", "t", "x", "t">> >>

BucketOf(kind, targets) ==
    CASE kind = "listing"     -> BucketAnswer(200, TRUE, OBJECTS, NoDomain)
      [] kind = "empty"       -> BucketAnswer(200, TRUE, <<>>, NoDomain)
      [] kind = "some_empty"  -> IF targets = <<>>
                                 THEN BucketAnswer(200, TRUE, <<>>, NoDomain)
                                 ELSE BucketAnswer(200, TRUE, OBJECTS, NoDomain)
      [] kind = "garbled"     -> BucketAnswer(200, FALSE, <<>>, NoDomain)
      [] kind = "redirect"    -> IF targets = <<>>
                                 THEN BucketAnswer(404, TRUE, <<>>, NoDomain)
                                 ELSE BucketAnswer(301, TRUE, <<>>, targets[1])
      [] kind = "badredirect" -> BucketAnswer(301, FALSE, <<>>, NoDomain)
      [] kind = "notfound"    -> BucketAnswer(404, TRUE, <<>>, NoDomain)
      [] OTHER                -> BucketFailure

\* one absolute reference per target, a relative one, and the first target again
RefsTo(targets) ==
    [k \in 1..Len(targets) |-> Ref(targets[k], <<"/", "x">>)]
      \o << Ref(NoDomain, <<"/", "y">>) >>
      \o (IF targets = <<>> THEN <<>> ELSE << Ref(targets[1], <<"/", "z">>) >>)

HttpOf(kind, targets) ==
    CASE kind = "both"        -> PageAnswer(TRUE, TRUE, RefsTo(targets))
      [] kind = "http_fails"  -> PageFailure
      [] kind = "https_fails" -> PageAnswer(TRUE, TRUE, RefsTo(targets))
      [] kind = "not_html"    -> PageAnswer(FALSE, TRUE, RefsTo(targets))
      [] kind = "unparsable"  -> PageAnswer(TRUE, FALSE, <<>>)
      [] kind = "malformed"   -> PageAnswer(TRUE, TRUE, << Malformed >> \o RefsTo(targets))
      [] OTHER                -> PageAnswer(TRUE, TRUE, <<>>)

\* the page of scheme https; in "malformed" the first target is referred to
\* before the malformed reference and the other targets after it
HttpsOf(kind, targets) ==
    CASE kind = "both"        -> PageAnswer(TRUE, TRUE, RefsTo(Sub(targets, 1, Min(1, Len(targets)))))
      [] kind = "http_fails"  -> PageAnswer(TRUE, TRUE, RefsTo(targets))
      [] kind = "https_fails" -> PageFailure
      [] kind = "not_html"    -> PageAnswer(FALSE, TRUE, RefsTo(targets))
      [] kind = "unparsable"  -> PageAnswer(TRUE, TRUE, RefsTo(targets))
      [] kind = "malformed"   -> PageAnswer(TRUE, TRUE,
                                     RefsTo(Sub(targets, 1, Min(1, Len(targets))))
                                       \o << Malformed >>
                                       \o RefsTo(Sub(targets, 2, Len(targets))))
      [] OTHER                -> PageAnswer(TRUE, TRUE, <<>>)

CnameOf(kind, targets) ==
    CASE kind = "alias"      -> DnsAnswer(TRUE, << [data |-> NoDomain] >>
                                   \o [k \in 1..Len(targets) |-> [data |-> targets[k]]])
      [] kind = "noalias"    -> DnsAnswer(TRUE, <<>>)
      [] kind = "noresponse" -> DnsAnswer(FALSE, <<>>)
      [] OTHER               -> DnsFailure

Environment(graph, s3, links, dns) ==
    [graph |-> graph,
     bucket |-> [d \in Domains |-> BucketOf(s3, graph[d])],
     http   |-> [d \in Domains |-> HttpOf(links, graph[d])],
     https  |-> [d \in Domains |-> HttpsOf(links, graph[d])],
     cname  |-> [d \in Domains |-> CnameOf(dns, graph[d])]]

\* One check varies at a time around endpoints that find nothing.
Profiles ==
    { <<s3, "nolinks", "noalias">> : s3 \in S3Kinds }
      \cup { <<"notfound", l, "noalias">> : l \in LinkKinds }
      \cup { <<"notfound", "nolinks", d>> : d \in DnsKinds }

\* Redirects are followed along the chain; the pages and the aliases name
\* every domain of the fan.
Redirecting == { <<"redirect", "nolinks", "noalias">> }
Discovering ==
    { <<"notfound", "both", "noalias">>, <<"notfound", "nolinks", "alias">>,
      <<"notfound", "malformed", "noalias">> }

\* All three checks find something.
Rich == { <<"listing", "both", "alias">> }

\* On a cycle every probe rediscovers a domain: a profile in which a probe
\* puts at most one domain and records nothing keeps the queue and the
\* results bounded there.
CycleProfiles == { <<"notfound", "both", "noalias">> }

Environments ==
    { Environment(Pair, p[1], p[2], p[3]) : p \in Profiles \cup Rich }
      \cup { Environment(Chain, p[1], p[2], p[3]) : p \in Redirecting }
      \cup { Environment(Fan, p[1], p[2], p[3]) : p \in Discovering }
      \cup { Environment(Cycle, p[1], p[2], p[3]) : p \in CycleProfiles }

(***************************************************************************)
(* The state of one run of analyze_domains.                                *)
(*                                                                         *)
(*   argv             the options given on the command line                *)
(*   env              the answers of the network                           *)
(*   domains          the seed list                                        *)
(*   queue_domains    the items of queue_domains, oldest first             *)
(*   queue_origin     for every queued item, what put it (not in the code) *)
(*   unfinished_tasks queue_domains._unfinished_tasks                      *)
(*   sem              sem._value, and the state of the scheduler's waiter  *)
(*   tasks            the tasks of the list tasks that are not done yet,   *)
(*                    in the order of their creation                       *)
(*   results          the list results                                     *)
(*   pc               where analyze_domains is                             *)
(*   count            how often each event has happened (not in the code); *)
(*                    started, links, dns: the calls of get_s3, get_links  *)
(*                    and get_dns_info; listed[d]: the 2xx answers get_s3  *)
(*                    has had for d                                        *)
(***************************************************************************)
VARIABLES argv, env, domains, queue_domains, queue_origin, unfinished_tasks,
          sem, tasks, results, pc, count

vars == <<argv, env, domains, queue_domains, queue_origin, unfinished_tasks,
          sem, tasks, results, pc, count>>

\* main, lines 235-242 and 263-266: both options are store_false with default True
parse_args(a) ==
    [no_links    |-> IF a.no_links THEN FALSE ELSE TRUE,
     no_dns      |-> IF a.no_dns THEN FALSE ELSE TRUE,
     concurrency |-> a.concurrency]

cli_args == parse_args(argv)

Seeds == UNION { [1..n -> Domains] : n \in 1..MaxSeeds }

\* a counter that stops at MaxCount
Plus(n, k) == Min(n + k, MaxCount)

Event(c, name, k) == [c EXCEPT ![name] = Plus(@, k)]

\* a task as create_task leaves it; permit: the sem.acquire of the loop
\* iteration that created it has completed (not in the code)
NewTask(domain) ==
    [domain |-> domain, pc |-> "created", found_domains |-> {}, permit |-> FALSE]

Remove(seq, i) == Sub(seq, 1, i - 1) \o Sub(seq, i + 1, Len(seq))

Init ==
    /\ argv \in [no_links : BOOLEAN, no_dns : BOOLEAN,
                 concurrency : 1..MaxConcurrency]
    /\ env \in Environments
    /\ domains \in Seeds
    /\ queue_domains = domains
    /\ queue_origin = [k \in 1..Len(domains) |-> "seed"]
    /\ unfinished_tasks = Len(domains)
    /\ sem = [value |-> argv.concurrency, waiter |-> "none"]
    /\ tasks = <<>>
    /\ results = <<>>
    /\ pc = "loop"
    /\ count = [put |-> Len(domains), get |-> 0, created |-> 0, started |-> 0,
                finished |-> 0, acquired |-> 0, links |-> 0, dns |-> 0,
                listed |-> [d \in Domains |-> 0]]

(***************************************************************************)
(* analyze_domains.                                                        *)
(***************************************************************************)
\* Dispatch, had the loop called queue_domains.get() a second time: the first
\* domain taken is dropped
Dispatch_gets_twice ==
    /\ pc = "loop"
    /\ queue_domains # <<>>
    /\ LET left == Tail(queue_domains)
           taken == IF left = <<>> THEN 1 ELSE 2
       IN  /\ queue_domains' = Sub(queue_domains, taken + 1, Len(queue_domains))
           /\ queue_origin' = Sub(queue_origin, taken + 1, Len(queue_origin))
           /\ tasks' = Append(tasks, NewTask(queue_domains[taken]))
           /\ count' = Event(Event(count, "get", taken), "created", 1)
    /\ pc' = "acquire"
    /\ UNCHANGED <<argv, env, domains, unfinished_tasks, sem, results>>

\* lines 184-195: the queue is not empty, so get() returns at once; the task
\* is created and will take its first step when the scheduler is suspended
Dispatch ==
    /\ pc = "loop"
    /\ queue_domains # <<>>
    /\ queue_domains' = Tail(queue_domains)
    /\ queue_origin' = Tail(queue_origin)
    /\ tasks' = Append(tasks, NewTask(Head(queue_domains)))
    /\ count' = Event(Event(count, "get", 1), "created", 1)
    /\ pc' = "acquire"
    /\ UNCHANGED <<argv, env, domains, unfinished_tasks, sem, results>>

\* line 197, Semaphore.acquire with a free permit: no suspension
AcquireFree ==
    /\ pc = "acquire"
    /\ sem.value > 0
    /\ sem' = [sem EXCEPT !.value = @ - 1]
    /\ tasks' = [k \in 1..Len(tasks) |-> [tasks[k] EXCEPT !.permit = TRUE]]
    /\ count' = Event(count, "acquired", 1)
    /\ pc' = "loop"
    /\ UNCHANGED <<argv, env, domains, queue_domains, queue_origin,
                   unfinished_tasks, results>>

\* line 197, Semaphore.acquire without a free permit: the scheduler waits
AcquireBlock ==
    /\ pc = "acquire"
    /\ sem.value <= 0
    /\ sem' = [sem EXCEPT !.waiter = "pending"]
    /\ pc' = "acquire_wait"
    /\ UNCHANGED <<argv, env, domains, queue_domains, queue_origin,
                   unfinished_tasks, tasks, results, count>>

\* line 197, Semaphore.acquire woken by a release: it tests _value again
AcquireResume ==
    /\ pc = "acquire_wait"
    /\ sem.waiter = "done"
    /\ IF sem.value > 0
       THEN /\ sem' = [value |-> sem.value - 1, waiter |-> "none"]
            /\ tasks' = [k \in 1..Len(tasks) |-> [tasks[k] EXCEPT !.permit = TRUE]]
            /\ count' = Event(count, "acquired", 1)
            /\ pc' = "loop"
       ELSE /\ sem' = [sem EXCEPT !.waiter = "pending"]
            /\ UNCHANGED <<tasks, count, pc>>
    /\ UNCHANGED <<argv, env, domains, queue_domains, queue_origin,
                   unfinished_tasks, results>>

\* LoopExit, had the loop been left while sem.acquire was still waiting
LoopExit_while_waiting ==
    /\ pc \in {"loop", "acquire_wait"}
    /\ queue_domains = <<>>
    /\ pc' = "gather"
    /\ UNCHANGED <<argv, env, domains, queue_domains, queue_origin,
                   unfinished_tasks, sem, tasks, results, count>>

\* line 184: queue_domains.empty() ends the loop
LoopExit ==
    /\ pc = "loop"
    /\ queue_domains = <<>>
    /\ pc' = "gather"
    /\ UNCHANGED <<argv, env, domains, queue_domains, queue_origin,
                   unfinished_tasks, sem, tasks, results, count>>

\* Gathered, had line 199 not awaited the tasks
Gathered_without_waiting == TRUE

\* line 199: what asyncio.gather(*tasks) waits for
Gathered == tasks = <<>>

\* lines 199-201
Return ==
    /\ pc = "gather"
    /\ Gathered
    /\ pc' = "returned"
    /\ UNCHANGED <<argv, env, domains, queue_domains, queue_origin,
                   unfinished_tasks, sem, tasks, results, count>>

(***************************************************************************)
(* analyze and its three checks.  tasks[i].pc names the request the task   *)
(* is waiting for; "created" is a task that has not taken its first step.  *)
(***************************************************************************)
\* SchedulerSuspended, had every queue_domains.get() of line 185 yielded to
\* the event loop
SchedulerSuspended_at_get == pc \in {"loop", "acquire_wait", "gather", "returned"}

\* The scheduler is suspended, so the event loop runs the tasks.
SchedulerSuspended == pc \in {"acquire_wait", "gather", "returned"}

\* The first steps of the created tasks are already queued in the event loop
\* when the scheduler suspends, in the order of creation: they run before
\* any callback of a response.
Starts(i) ==
    /\ SchedulerSuspended
    /\ i \in 1..Len(tasks)
    /\ tasks[i].pc = "created"
    /\ \A j \in 1..(i - 1) : tasks[j].pc # "created"

Resumes(i, at) ==
    /\ SchedulerSuspended
    /\ i \in 1..Len(tasks)
    /\ tasks[i].pc = at
    /\ \A j \in 1..Len(tasks) : tasks[j].pc # "created"

\* AfterS3, had line 155 not tested cli_args.no_links
AfterS3_always_links == "get_links_http"

\* lines 155-156: the check that follows get_s3
AfterS3 == IF ~cli_args.no_links THEN "get_links_http"
           ELSE IF ~cli_args.no_dns THEN "get_dns_info" ELSE "finally"

\* AfterLinks, had get_dns_info been left out once get_links has run
AfterLinks_skips_dns == "finally"

\* lines 162-163: the check that follows get_links
AfterLinks == IF ~cli_args.no_dns THEN "get_dns_info" ELSE "finally"

\* Release, had the finally block not released the semaphore
Release_forgotten(s) == s

\* line 168, Semaphore.release: _value += 1, then the first waiter is woken
Release(s) ==
    [value |-> s.value + 1,
     waiter |-> IF s.waiter = "pending" THEN "done" ELSE s.waiter]

\* line 169, Queue.task_done
TaskDone(unfinished) == unfinished - 1

\* the call of the check whose first request is `next` is counted
Called(c, next) ==
    CASE next = "get_links_http" -> Event(c, "links", 1)
      [] next = "get_dns_info"   -> Event(c, "dns", 1)
      [] OTHER                   -> c

\* Task i has put `puts` on the queue and appended `appended` to results,
\* and now waits for the request `next`; with next = "finally" it has left
\* the try block, runs lines 167-169 and is done.
Proceed(i, next, found, puts, origin, appended, c) ==
    /\ queue_domains' = queue_domains \o puts
    /\ queue_origin' = queue_origin \o [k \in 1..Len(puts) |-> origin]
    /\ results' = results \o appended
    /\ IF next = "finally"
       THEN /\ tasks' = Remove(tasks, i)
            /\ sem' = Release(sem)
            /\ unfinished_tasks' = TaskDone(unfinished_tasks + Len(puts))
            /\ count' = Event(Event(c, "put", Len(puts)), "finished", 1)
       ELSE /\ tasks' = [tasks EXCEPT ![i].pc = next, ![i].found_domains = found]
            /\ sem' = sem
            /\ unfinished_tasks' = unfinished_tasks + Len(puts)
            /\ count' = Called(Event(c, "put", Len(puts)), next)
    /\ UNCHANGED <<argv, env, domains, pc>>

\* lines 144-150 and 98-112: the task starts and sends get_s3's request
Start(i) ==
    /\ Starts(i)
    /\ tasks' = [tasks EXCEPT ![i].pc = "get_s3"]
    /\ count' = Event(count, "started", 1)
    /\ UNCHANGED <<argv, env, domains, queue_domains, queue_origin,
                   unfinished_tasks, sem, results, pc>>

\* festin.S3Bucket
S3Bucket(domain, bucket_name, objects) ==
    [domain |-> domain, bucket_name |-> bucket_name, objects |-> objects]

\* festin.parse_result: the object paths of a listing, in the order received
parse_result(r) == r.objects

\* festin.get_redirection: the domain a redirect body names
get_redirection(r) == r.location

\* S3Appended, had line 121 collected the paths into a set: their order is lost
S3Appended_unordered(domain, r) ==
    IF /\ ~r.failed
       /\ StatusStartsWith2(r.status)
       /\ r.parses
       /\ parse_result(r) # <<>>
    THEN << S3Bucket(BucketDomain(domain), BucketName(domain),
                     [k \in 1..Len(parse_result(r)) |->
                         parse_result(r)[Len(parse_result(r)) + 1 - k]]) >>
    ELSE <<>>

\* S3Appended, had line 117 recorded a body that parse_result rejects
S3Appended_garbled(domain, r) ==
    IF /\ ~r.failed
       /\ StatusStartsWith2(r.status)
       /\ (~r.parses \/ parse_result(r) # <<>>)
    THEN << S3Bucket(BucketDomain(domain), BucketName(domain), parse_result(r)) >>
    ELSE <<>>

\* S3Appended, had line 117 not tested that the listing has objects
S3Appended_empty(domain, r) ==
    IF /\ ~r.failed
       /\ StatusStartsWith2(r.status)
       /\ r.parses
    THEN << S3Bucket(BucketDomain(domain), BucketName(domain), parse_result(r)) >>
    ELSE <<>>

\* lines 114-122: what get_s3 appends to results for the answer r
S3Appended(domain, r) ==
    IF /\ ~r.failed
       /\ StatusStartsWith2(r.status)
       /\ r.parses
       /\ parse_result(r) # <<>>
    THEN << S3Bucket(BucketDomain(domain), BucketName(domain),
                     [k \in 1..Len(parse_result(r)) |-> parse_result(r)[k]]) >>
    ELSE <<>>

\* lines 124-133: what get_s3 puts on the queue for the answer r
S3Puts(r) ==
    IF /\ ~r.failed
       /\ ~StatusStartsWith2(r.status)
       /\ r.status = 301
       /\ r.parses
    THEN << get_redirection(r) >>
    ELSE <<>>

\* lines 112-136 and 150-163: get_s3's answer arrives
GetS3(i) ==
    /\ Resumes(i, "get_s3")
    /\ LET d == tasks[i].domain
           r == env.bucket[d]
       IN  Proceed(i, AfterS3, {}, S3Puts(r), "get_s3", S3Appended(d, r),
                   IF ~r.failed /\ StatusStartsWith2(r.status)
                   THEN [count EXCEPT !.listed[d] = Plus(@, 1)]
                   ELSE count)

\* urllib.parse.urlparse(res) raises ValueError("Invalid IPv6 URL") for an
\* authority with a bracket that has no partner
urlparse_raises(ref) ==
    LET opens == \E k \in 1..Len(ref.netloc) : ref.netloc[k] = "["
        closes == \E k \in 1..Len(ref.netloc) : ref.netloc[k] = "]"
    IN  opens # closes

\* lines 46-62: the authorities one scheme adds to found_domains; the xpath
\* expression is evaluated twice and the two lists are concatenated; a
\* reference urlparse rejects ends the scheme, and what was added stays
Netlocs(r) ==
    IF r.failed \/ ~r.html \/ ~r.parses THEN {}
    ELSE LET res == r.refs \o r.refs
             raising == { k \in 1..Len(res) : urlparse_raises(res[k]) }
             seen == { k \in 1..Len(res) : \A j \in raising : k < j }
         IN  { res[k].netloc : k \in seen } \ {NoDomain}

\* the orders in which a Python set may be iterated
Orderings(S) ==
    { o \in [1..Cardinality(S) -> S] :
        \A j, k \in 1..Cardinality(S) : o[j] = o[k] => j = k }

\* lines 38-62, scheme "http": its answer arrives, the https request is sent
GetLinksHttp(i) ==
    /\ Resumes(i, "get_links_http")
    /\ LET d == tasks[i].domain
       IN  Proceed(i, "get_links_https", Netlocs(env.http[d]), <<>>, "get_links",
                   <<>>, count)

\* GetLinksHttps, had found_domains been emptied for every scheme
GetLinksHttps_forgets(i) ==
    /\ Resumes(i, "get_links_https")
    /\ LET d == tasks[i].domain
           found == Netlocs(env.https[d])
       IN  \E o \in Orderings(found) :
               Proceed(i, AfterLinks, {}, o, "get_links", <<>>, count)

\* lines 38-72, scheme "https": its answer arrives, found_domains is put
GetLinksHttps(i) ==
    /\ Resumes(i, "get_links_https")
    /\ LET d == tasks[i].domain
           found == tasks[i].found_domains \cup Netlocs(env.https[d])
       IN  \E o \in Orderings(found) :
               Proceed(i, AfterLinks, {}, o, "get_links", <<>>, count)

\* lines 81-90: what get_dns_info puts for the answer r; a failed query
\* returns, a missing response raises into analyze's except
DnsPuts(r) ==
    IF r.failed \/ ~r.answered THEN <<>>
    ELSE LET with_data == SelectSeq(r.an, LAMBDA resp : resp.data # NoDomain)
         IN  [k \in 1..Len(with_data) |-> with_data[k].data]

\* lines 81-90 and 165-169: the CNAME answer arrives
GetDnsInfo(i) ==
    /\ Resumes(i, "get_dns_info")
    /\ LET d == tasks[i].domain
       IN  Proceed(i, "finally", {}, DnsPuts(env.cname[d]), "get_dns_info",
                   <<>>, count)

Scheduler ==
    \/ Dispatch
    \/ AcquireFree
    \/ AcquireBlock
    \/ AcquireResume
    \/ LoopExit
    \/ Return

Task(i) ==
    \/ Start(i)
    \/ GetS3(i)
    \/ GetLinksHttp(i)
    \/ GetLinksHttps(i)
    \/ GetDnsInfo(i)

\* no more than concurrency + 1 tasks are ever unfinished
TaskIndexes == 1..(MaxConcurrency + 1)

Next ==
    \/ Scheduler
    \/ \E i \in TaskIndexes : Task(i)

Spec == Init /\ [][Next]_vars

\* The event loop runs every callback that is ready, and every request is
\* answered.
Fairness ==
    /\ WF_vars(Scheduler)
    /\ \A i \in TaskIndexes : SF_vars(Task(i))

FairSpec == Spec /\ Fairness

\* The runs in which the probes leave analyze on each of its paths: every
\* check succeeds, a check fails, alias resolution raises.
ExitProfiles ==
    { <<"listing", "nolinks", "noalias">>, <<"notfound", "both", "noalias">>,
      <<"failure", "nolinks", "noalias">>,
      <<"notfound", "http_fails", "noalias">>,
      <<"notfound", "unparsable", "noalias">>,
      <<"notfound", "nolinks", "failure">>,
      <<"notfound", "nolinks", "noresponse">> }

ExitInit ==
    /\ Init
    /\ env \in { Environment(Pair, p[1], p[2], p[3]) : p \in ExitProfiles }

\* Here it is enough that the event loop never idles while a callback is ready.
ExitSpec == ExitInit /\ [][Next]_vars /\ WF_vars(Next)

TypeOK ==
    /\ queue_domains \in Seq(Domains)
    /\ Len(queue_origin) = Len(queue_domains)
    /\ Len(tasks) <= MaxConcurrency + 1
    /\ sem.value \in 0..(MaxConcurrency + 1)
    /\ pc \in {"loop", "acquire", "acquire_wait", "gather", "returned"}

(***************************************************************************)
(* Properties.                                                             *)
(***************************************************************************)
\* the probes that have started and have not left their finally block
Executing == { i \in 1..Len(tasks) : tasks[i].pc # "created" }

\* the counters of count are exact while they are below MaxCount
Exact == /\ count.put < MaxCount
         /\ count.get < MaxCount
         /\ count.created < MaxCount
         /\ count.acquired < MaxCount
         /\ count.finished < MaxCount

\* C1: the number of analyze probes that have started and have not yet
\* left their finally block never exceeds the concurrency limit.
C1_ExecutingWithinLimit == Cardinality(Executing) <= cli_args.concurrency

\* C2: under fair scheduling analyze_domains eventually returns, whatever
\* the discovery graph, a cycle included.
C2_EventuallyReturns == <>(pc = "returned")

\* C3: when analyze_domains has returned, every redirect target that a
\* bucket check has put on the queue has been taken off it (and probed).
C3_RedirectTargetProbed ==
    pc = "returned" => \A k \in 1..Len(queue_origin) : queue_origin[k] # "get_s3"

\* C4: when analyze_domains has returned, the queue is empty.
C4_QueueEmptyAtReturn == pc = "returned" => queue_domains = <<>>

\* C5: analyze_domains has returned only if every analyze task it created
\* has left its finally block: no task is left that could still put a domain
\* on the queue or append to results.
C5_ReturnsAfterAllTasks ==
    pc = "returned" => /\ tasks = <<>>
                       /\ count.finished = count.created

C5_Witness ==
    /\ pc = "returned"
    /\ count.created >= 2
    /\ count.put > Len(domains)
    /\ results # <<>>

\* C6: every probe that has ended, however its checks ended, has released
\* the semaphore once and called task_done once, so the semaphore's value and
\* the queue's unfinished count are what the numbers of ended probes make
\* them; and a scheduler waiting in sem.acquire always gets its permit.
C6_Released ==
    Exact => /\ sem.value = cli_args.concurrency + count.finished - count.acquired
             /\ unfinished_tasks = count.put - count.finished

C6_ReleasedOnEveryPath ==
    /\ []C6_Released
    /\ (pc = "acquire_wait") ~> (pc = "loop")

\* a probe whose alias resolution raised has ended and woken the scheduler
C6_Witness ==
    /\ pc = "acquire_wait"
    /\ sem.waiter = "done"
    /\ count.finished = 1
    /\ ~cli_args.no_dns
    /\ \A d \in Domains : ~env.cname[d].failed /\ ~env.cname[d].answered

\* C7: no analyze task has taken its first step while the sem.acquire of
\* the loop iteration that created it has not completed.
C7_AcquiredBeforeStart ==
    \A i \in 1..Len(tasks) : tasks[i].pc # "created" => tasks[i].permit

\* C8: every dequeue creates exactly one analyze task, for the domain that
\* was dequeued, and tasks are created in no other way; so as many tasks have
\* been created as domains dequeued.
C8_OneTaskPerDequeue ==
    /\ [](count.created = count.get)
    /\ [][ /\ (Len(queue_domains') < Len(queue_domains))
               <=> (Len(tasks') > Len(tasks))
           /\ (Len(queue_domains') < Len(queue_domains)) =>
                 /\ queue_domains' = Tail(queue_domains)
                 /\ tasks' = Append(tasks, tasks'[Len(tasks')])
                 /\ tasks'[Len(tasks')].domain = Head(queue_domains)
                 /\ tasks'[Len(tasks')].pc = "created" ]_vars

\* a domain that a probe discovered has been dequeued and given a task
C8_Witness ==
    /\ count.get > Len(domains)
    /\ count.get < MaxCount
    /\ Len(tasks) >= 2

\* no bucket endpoint answers with a redirect that get_s3 follows
NoRedirect == \A d \in Domains : S3Puts(env.bucket[d]) = <<>>

OnlySeedsProbed ==
    /\ count.put = Len(domains)
    /\ count.created <= Len(domains)
    /\ pc = "returned" => count.created = Len(domains)

\* C9 as stated: with link extraction and alias resolution disabled, exactly
\* N probes are invoked and nothing but the N seeds is ever put on the queue,
\* whatever the bucket endpoints answer.
C9_Original == (cli_args.no_links /\ cli_args.no_dns) => OnlySeedsProbed

\* C9 as amended: the same, provided no bucket endpoint answers with a 301
\* whose redirect target get_s3 puts on the queue.
C9_OnlySeedsProbed ==
    (cli_args.no_links /\ cli_args.no_dns /\ NoRedirect) => OnlySeedsProbed

\* both checks are disabled although the pages and the aliases name domains
C9_Witness ==
    /\ cli_args.no_links /\ cli_args.no_dns /\ NoRedirect
    /\ Netlocs(env.http[DomA]) # {}
    /\ DnsPuts(env.cname[DomA]) # <<>>
    /\ domains = <<DomA, DomA>>
    /\ pc = "returned"

\* the endpoint of d answers 2xx with a listing that is not empty
HasListing(d) ==
    /\ ~env.bucket[d].failed
    /\ env.bucket[d].status \in 200..299
    /\ env.bucket[d].parses
    /\ env.bucket[d].objects # <<>>

\* the locator and the recorded name of every domain
Locator == [d \in Domains |-> BucketName(d)]
Recorded == [d \in Domains |-> BucketDomain(d)]

\* the results recorded for the bucket of domain d
ResultsFor(d) == { k \in 1..Len(results) : results[k].bucket_name = Locator[d] }

InSeeds(d) == \E k \in 1..Len(domains) : domains[k] = d

\* C10 as stated: the results analyze_domains returns hold exactly one
\* Bucket Result for a seed domain whose endpoint answers with a listing, and
\* its objects are the listing's paths in the order received.
C10_Original ==
    pc = "returned" =>
        \A d \in Domains : (InSeeds(d) /\ HasListing(d)) =>
            /\ Cardinality(ResultsFor(d)) = 1
            /\ \A k \in ResultsFor(d) : results[k].objects = env.bucket[d].objects

\* C10 as amended: the results hold one Bucket Result for every bucket probe
\* of such a domain that has had its answer (at least one when
\* analyze_domains returns and the domain is a seed), each with the listing's
\* paths in the order received and with the domain as get_s3 rewrote it.
C10_OneResultPerProbe ==
    \A d \in Domains : (HasListing(d) /\ count.listed[d] < MaxCount) =>
        /\ Cardinality(ResultsFor(d)) = count.listed[d]
        /\ \A k \in ResultsFor(d) :
              /\ results[k].objects = env.bucket[d].objects
              /\ results[k].domain = Recorded[d]
        /\ (pc = "returned" /\ InSeeds(d)) => ResultsFor(d) # {}

\* a seed listed twice, and a domain whose recorded name differs from it
C10_Witness ==
    /\ pc = "returned"
    /\ HasListing(DomA) /\ HasListing(DomB)
    /\ Cardinality(ResultsFor(DomA)) = 2
    /\ Cardinality(ResultsFor(DomB)) >= 1
    /\ \E k \in ResultsFor(DomB) : results[k].domain # DomB

\* the probes that wait for one of the requests of P
AtPc(P) == Cardinality({ i \in 1..Len(tasks) : tasks[i].pc \in P })

\* get_links has been called by every probe whose get_s3 has ended if
\* links_on, by none otherwise; get_dns_info by every probe that has got past
\* get_links if dns_on, by none otherwise
ChecksCalled(links_on, dns_on) ==
    /\ count.links = IF links_on THEN count.started - AtPc({"get_s3"}) ELSE 0
    /\ count.dns = IF dns_on
                   THEN count.started
                          - AtPc({"get_s3", "get_links_http", "get_links_https"})
                   ELSE 0

\* C11: every probe calls get_s3, and then each check that analyze finds
\* enabled (lines 155 and 162), whatever the earlier checks answered: a
\* failure, a parse error, nothing found, an exception.
C11_EveryEnabledCheckInvoked ==
    count.started < MaxCount =>
        /\ ChecksCalled(~cli_args.no_links, ~cli_args.no_dns)
        /\ pc = "returned" => count.started = count.created

\* the bucket requests failed, and both other checks were called by two probes
C11_Witness ==
    /\ pc = "returned"
    /\ \A d \in Domains : env.bucket[d].failed
    /\ ~cli_args.no_links /\ ~cli_args.no_dns
    /\ count.started = 2 /\ count.links = 2 /\ count.dns = 2

\* Task i, waiting for the request `at`, takes its step.
Moved(i, at) ==
    /\ i \in 1..Len(tasks)
    /\ tasks[i].pc = at
    /\ \/ tasks' = Remove(tasks, i)
       \/ Len(tasks') = Len(tasks) /\ tasks'[i].pc # at

\* what the step has put on the queue
Pushed == Sub(queue_domains', Len(queue_domains) + 1, Len(queue_domains'))

\* a bucket answer that is a failure, neither 2xx nor 301, or not parsable
Fruitless(r) ==
    \/ r.failed
    \/ r.status \notin 200..299 /\ r.status # 301
    \/ ~r.parses

\* C12: a bucket probe that ends with a status that is neither 2xx nor 301,
\* with a network failure or with a parse failure leaves the queue and the
\* results as they were, and the probe goes on to its next check.
C12_FruitlessBucketProbe ==
    [][ \A i \in TaskIndexes :
          (Moved(i, "get_s3") /\ Fruitless(env.bucket[tasks[i].domain])) =>
              /\ queue_domains' = queue_domains
              /\ results' = results
              /\ IF ~cli_args.no_links
                 THEN Len(tasks') = Len(tasks) /\ tasks'[i].pc = "get_links_http"
                 ELSE IF ~cli_args.no_dns
                 THEN Len(tasks') = Len(tasks) /\ tasks'[i].pc = "get_dns_info"
                 ELSE tasks' = Remove(tasks, i) ]_vars

\* a probe whose redirect could not be read is at its next check
C12_Witness ==
    \E i \in 1..Len(tasks) :
        /\ tasks[i].pc = "get_links_http"
        /\ env.bucket[tasks[i].domain].status = 301
        /\ ~env.bucket[tasks[i].domain].parses
        /\ queue_domains = <<>>
        /\ results = <<>>

\* every result is the listing of a domain that answers with one
FromListing ==
    \A k \in 1..Len(results) :
        /\ results[k].objects # <<>>
        /\ \E d \in Domains : /\ HasListing(d)
                              /\ results[k].bucket_name = Locator[d]
                              /\ results[k].objects = env.bucket[d].objects

\* C13: every result recorded comes from a 2xx answer with a listing that is
\* not empty, so its object list is not empty; a 2xx answer with an empty
\* listing appends nothing; a result, once appended, stays as it is.
C13_ResultsOnlyFromListings ==
    /\ []FromListing
    /\ [][ /\ Len(results') >= Len(results)
           /\ Sub(results', 1, Len(results)) = results
           /\ \A i \in TaskIndexes :
                 ( /\ Moved(i, "get_s3")
                   /\ ~env.bucket[tasks[i].domain].failed
                   /\ env.bucket[tasks[i].domain].objects = <<>> )
                     => results' = results ]_vars

\* one seed answered with a listing and one with an empty listing: one result
C13_Witness ==
    /\ pc = "returned"
    /\ HasListing(DomA)
    /\ env.bucket[DomB].status = 200 /\ env.bucket[DomB].parses
    /\ env.bucket[DomB].objects = <<>>
    /\ count.listed[DomA] = 1 /\ count.listed[DomB] = 1
    /\ Len(results) = 1

\* the authorities of the references of an HTML answer that are not empty
Authorities(r) ==
    IF r.failed \/ ~r.html THEN {}
    ELSE { r.refs[k].netloc :
             k \in { j \in 1..Len(r.refs) : ~urlparse_raises(r.refs[j]) } }
           \ {NoDomain}

\* C14: what one get_links call puts on the queue is every authority of the
\* references of its two HTML answers, once each, and nothing else.
C14_PushesExactlyTheAuthorities ==
    [][ \A i \in TaskIndexes :
          Moved(i, "get_links_https") =>
              LET d == tasks[i].domain
                  found == Authorities(env.http[d]) \cup Authorities(env.https[d])
              IN  /\ { Pushed[k] : k \in 1..Len(Pushed) } = found
                  /\ Len(Pushed) = Cardinality(found) ]_vars

\* C15: get_links is called by every probe unless --no-links is given, and
\* by none if it is; the same for get_dns_info and --no-dns.
C15_OptionsSkipChecks ==
    count.started < MaxCount => ChecksCalled(~argv.no_links, ~argv.no_dns)

\* C16: the scheduler leaves its loop only when the queue is empty and no
\* probe it has launched is still pending.
C16_LeavesLoopOnlyWhenIdle ==
    [][ (pc = "loop" /\ pc' = "gather") => (queue_domains = <<>> /\ tasks = <<>>) ]_vars

\* the answer of a scheme all of whose references get_links has read
Succeeded(r) ==
    /\ ~r.failed /\ r.html /\ r.parses
    /\ \A k \in 1..Len(r.refs) : ~urlparse_raises(r.refs[k])

C18_FreePermitsWithinLimit == sem.value \in 0..cli_args.concurrency

\* C19: when the loop has been left no sem.acquire is pending and as many
\* have completed as tasks were created; when analyze_domains returns, as
\* many releases have been made, and the semaphore's value is the
\* configured concurrency again.
C19_AcquiresMatchReleases ==
    /\ pc \in {"gather", "returned"} =>
          /\ sem.waiter = "none"
          /\ Exact => count.acquired = count.created
    /\ pc = "returned" =>
          /\ sem.value = cli_args.concurrency
          /\ Exact => count.finished = count.acquired

\* more probes than permits: the scheduler has waited in sem.acquire
C19_Witness ==
    /\ pc = "returned"
    /\ Exact
    /\ count.created > cli_args.concurrency + 1
    /\ count.started = count.created

\* C20: with no more seeds than permits the loop dispatches every seed
\* before any probe takes a step, never waits, and is left with exactly as
\* many probes created as there are seeds, whatever they put on the queue.
C20_SeedsWithinLimit ==
    Len(domains) <= cli_args.concurrency =>
        /\ pc # "acquire_wait"
        /\ count.created <= Len(domains)
        /\ pc \in {"loop", "acquire"} =>
              /\ count.started = 0
              /\ count.put = Len(domains)
        /\ pc \in {"gather", "returned"} => count.created = Len(domains)

\* two seeds, two permits, and domains the probes found left on the queue
C20_Witness ==
    /\ pc = "returned"
    /\ Len(domains) = 2 /\ cli_args.concurrency = 2
    /\ count.created = 2
    /\ count.put > 2
    /\ queue_domains # <<>>

=============================================================================
